---- MODULE Spec2Model ----
(***************************************************************************)
(* Model of the mock REST API of the task management page                  *)
(* (src/src/pages/NewApp.jsx, the `api` object built in useMemo).          *)
(*                                                                         *)
(* The store is the three localStorage keys tms_users, tms_tasks and       *)
(* tms_session.  Every api method is `await delay(); <body>`: the body     *)
(* touches the store only after the delay and contains no further await,   *)
(* so it runs as one step of the browser's event loop.  The arguments are  *)
(* fixed when the method is called; the body runs when the delay expires.  *)
(*                                                                         *)
(* Abstractions: a user keeps id, email, role and password (name and       *)
(* createdAt are written once and never read by the api); a task keeps id, *)
(* title, description, status, createdBy, assignedTo, createdAt and        *)
(* updatedAt (priority and dueDate are copied like title and status).      *)
(* uid() is modelled as a generator of fresh identifiers, nowISO() as the  *)
(* reading of a clock that never runs backwards.                           *)
(***************************************************************************)
EXTENDS Integers, Sequences, FiniteSets, TLC

VARIABLES
    users,      \* localStorage tms_users: sequence of user records
    tasks,      \* localStorage tms_tasks: sequence of task records
    session,    \* localStorage tms_session: <<>> (key absent) or <<record>>
    uidCount,   \* number of identifiers uid() has produced so far
    now,        \* the clock nowISO() reads
    inflight,   \* api calls whose delay has not expired yet
    last,       \* the api call that settled last, with its outcome
    gone,       \* history: the ids for which a deleteTask has succeeded
    client      \* the React state of the page: auth, taskQuery, tasks, users

vars == <<users, tasks, session, uidCount, now, inflight, last, gone, client>>

(***************************************************************************)
(* Bounds of the model.                                                    *)
(***************************************************************************)
MaxUid == 7         \* uid() is called at most this many times (5 of them seed)
MaxTime == 1
MaxInflight == 2
MaxListed == 5      \* tasks createTask has added to the store that list reads
MaxPageSize == 5

(***************************************************************************)
(* JavaScript values.                                                      *)
(***************************************************************************)
Null == "<null>"                 \* the value null of a string-typed field
Undefined == "<undefined>"       \* a key the object does not have
Falsy(v) == v = Null \/ v = "" \/ v = Undefined   \* what `v || d` replaces by d
\* o.k, undefined when o has no key k
Get(o, k) == IF k \in DOMAIN o THEN o[k] ELSE Undefined

Has(o, k) == k \in DOMAIN o      \* o.k !== undefined
\* { ...a, ...b }
Spread(a, b) ==
    [k \in DOMAIN a \cup DOMAIN b |-> IF k \in DOMAIN b THEN b[k] ELSE a[k]]
\* const { k, ...rest } = o
Without(o, k) == [f \in DOMAIN o \ {k} |-> o[f]]

\* Array.prototype.find / findIndex over the set S of places that pass the
\* test: the first of them (places count from 1), 0 when none passes
First(S) == IF S = {} THEN 0 ELSE CHOOSE i \in S : \A j \in S : i <= j

\* Array.prototype.slice(start, end): negative arguments count from the end
SliceIndex(len, k) ==
    IF k < 0 THEN (IF len + k < 0 THEN 0 ELSE len + k)
    ELSE (IF k > len THEN len ELSE k)
Slice(seq, start, end) ==
    SubSeq(seq, SliceIndex(Len(seq), start) + 1, SliceIndex(Len(seq), end))

\* mutant: the quotient is rounded down
Ceil_Floor(a, b) == a \div b
\* Math.ceil(a / b) for a >= 0 and b >= 1
Ceil(a, b) == (a + b - 1) \div b

\* The characters of the strings that titles, descriptions and searches hold.
Chars(s) ==
    CASE s = "" -> <<>>
      [] s = "X" -> <<"X">>
      [] s = "x" -> <<"x">>
      [] s = "KICK" -> <<"K", "I", "C", "K">>
      [] s = " KICK " -> <<" ", "K", "I", "C", "K", " ">>
      [] s = "Low" -> <<"L", "o", "w">>
      [] s = "zzz" -> <<"z", "z", "z">>
      [] s = "Fix" -> <<"F", "i", "x">>
      [] s = "kick it" -> <<"k", "i", "c", "k", " ", "i", "t">>
      [] s = "Kickoff meeting" ->
            <<"K", "i", "c", "k", "o", "f", "f", " ", "m", "e", "e", "t", "i", "n", "g">>
      [] s = "Create wireframes" ->
            <<"C", "r", "e", "a", "t", "e", " ", "w", "i", "r", "e", "f", "r", "a", "m", "e", "s">>
      [] s = "Project intro and scope alignment." ->
            <<"P", "r", "o", "j", "e", "c", "t", " ", "i", "n", "t", "r", "o", " ",
              "a", "n", "d", " ", "s", "c", "o", "p", "e", " ",
              "a", "l", "i", "g", "n", "m", "e", "n", "t", ".">>
      [] s = "Low-fidelity screens for core flows." ->
            <<"L", "o", "w", "-", "f", "i", "d", "e", "l", "i", "t", "y", " ",
              "s", "c", "r", "e", "e", "n", "s", " ", "f", "o", "r", " ",
              "c", "o", "r", "e", " ", "f", "l", "o", "w", "s", ".">>
UpperCase == <<"A", "B", "C", "D", "E", "F", "G", "H", "I", "J", "K", "L", "M",
               "N", "O", "P", "Q", "R", "S", "T", "U", "V", "W", "X", "Y", "Z">>
LowerCase == <<"a", "b", "c", "d", "e", "f", "g", "h", "i", "j", "k", "l", "m",
               "n", "o", "p", "q", "r", "s", "t", "u", "v", "w", "x", "y", "z">>
\* String.prototype.toLowerCase, on the characters of a string
LowerOf ==
    [c \in {UpperCase[j] : j \in 1..Len(UpperCase)} |->
        LowerCase[CHOOSE j \in 1..Len(UpperCase) : UpperCase[j] = c]]
toLowerCase(cs) ==
    [k \in 1..Len(cs) |-> IF cs[k] \in DOMAIN LowerOf THEN LowerOf[cs[k]] ELSE cs[k]]
\* String.prototype.includes, on the characters of two strings
includes(hay, needle) ==
    \E k \in 0..(Len(hay) - Len(needle)) : SubSeq(hay, k + 1, k + Len(needle)) = needle

\* uid(): the k-th identifier produced
UidTable == <<"i1", "i2", "i3", "i4", "i5", "i6", "i7", "i8", "i9", "i10", "i11", "i12">>
uid(k) == UidTable[k]

(***************************************************************************)
(* Tokens.  A token is the string `mock-token-${id}`; it is modelled as    *)
(* the pair <<prefix, rest>>, the empty tuple standing for a missing one.  *)
(***************************************************************************)
TokenPrefix == "mock-token-"
NoToken == <<>>
\* mutant: the token is minted with another prefix than the one looked for
createToken_OtherPrefix(user) == <<"token-", user.id>>
createToken(user) == <<TokenPrefix, user.id>>
\* mutant: the prefix of the token is not looked at
getUserFromToken_NoPrefixCheck(token) ==
    IF token = NoToken THEN 0
    ELSE LET id == token[2] IN First({k \in 1..Len(users) : users[k].id = id})
\* index in `users` of the user the token names, 0 for null
getUserFromToken(token) ==
    IF token = NoToken \/ token[1] # TokenPrefix THEN 0
    ELSE LET id == token[2] IN First({k \in 1..Len(users) : users[k].id = id})

(***************************************************************************)
(* RBAC checks.  `me` is an index in `users` (0 for null).                 *)
(***************************************************************************)
\* mutant: everyone but a member may manage users
canManageUsers_NotMember(me) == me # 0 /\ users[me].role # "member"
canManageUsers(me) == me # 0 /\ users[me].role = "admin"
canAssignTasks(me) ==
    me # 0 /\ (users[me].role = "admin" \/ users[me].role = "manager")
\* mutant: a manager may not delete
canDeleteTask_NoManager(me, task) ==
    /\ me # 0
    /\ \/ users[me].role = "admin"
       \/ (users[me].role = "member" /\ task.createdBy = users[me].id)
canDeleteTask(me, task) ==
    /\ me # 0
    /\ \/ users[me].role = "admin"
       \/ users[me].role = "manager"
       \/ (users[me].role = "member" /\ task.createdBy = users[me].id)
\* mutant: the ownership test of a member is left out
canUpdateTask_NoOwner(me, task) ==
    /\ me # 0
    /\ users[me].role \in {"admin", "manager", "member"}
canUpdateTask(me, task) ==
    /\ me # 0
    /\ \/ users[me].role = "admin"
       \/ users[me].role = "manager"
       \/ (users[me].role = "member" /\ task.createdBy = users[me].id)

(***************************************************************************)
(* Outcome of a settled call: what the promise resolved to, or the Error   *)
(* it rejected with (status 0 when the code sets no err.status).           *)
(***************************************************************************)
NoError == [message |-> "", status |-> 0]
Resolve(op, by, result) ==
    [op |-> op, by |-> by, ok |-> TRUE, error |-> NoError, result |-> result]
Throw(op, by, message, status) ==
    [op |-> op, by |-> by, ok |-> FALSE,
     error |-> [message |-> message, status |-> status], result |-> Null]

\* The store a handler body leaves behind, and the outcome of the call.
Out(u, t, s, n, r) == [users |-> u, tasks |-> t, session |-> s, uidCount |-> n, resp |-> r]
\* A body that throws before it writes anything.
Fail(op, by, message, status) ==
    Out(users, tasks, session, uidCount, Throw(op, by, message, status))

(***************************************************************************)
(* seedIfEmpty(): what the constructor writes into an empty localStorage.  *)
(***************************************************************************)
SeedUsers ==
    << [id |-> uid(1), email |-> "admin@demo.com", role |-> "admin", password |-> "admin"],
       [id |-> uid(2), email |-> "manager@demo.com", role |-> "manager", password |-> "manager"],
       [id |-> uid(3), email |-> "member@demo.com", role |-> "member", password |-> "member"] >>
SeedTasks ==
    << [id |-> uid(4), title |-> "Kickoff meeting",
        description |-> "Project intro and scope alignment.", status |-> "todo",
        createdAt |-> 0, updatedAt |-> 0, createdBy |-> uid(1), assignedTo |-> uid(3)],
       [id |-> uid(5), title |-> "Create wireframes",
        description |-> "Low-fidelity screens for core flows.", status |-> "in-progress",
        createdAt |-> 0, updatedAt |-> 0, createdBy |-> uid(1), assignedTo |-> uid(1)] >>

\* seedIfEmpty() on any localStorage (lines 40-104): users and tasks are
\* written only where the key holds none; n identifiers are used up already
SeededUsers(n) ==
    << [id |-> uid(n + 1), email |-> "admin@demo.com", role |-> "admin", password |-> "admin"],
       [id |-> uid(n + 2), email |-> "manager@demo.com", role |-> "manager", password |-> "manager"],
       [id |-> uid(n + 3), email |-> "member@demo.com", role |-> "member", password |-> "member"] >>
\* usersRef.find((u) => u.role === role)?.id
FirstIdOfRole(us, role) ==
    LET k == First({j \in 1..Len(us) : us[j].role = role})
    IN  IF k = 0 THEN Undefined ELSE us[k].id
SeededTasks(n, us) ==
    << [id |-> uid(n + 1), title |-> "Kickoff meeting",
        description |-> "Project intro and scope alignment.", status |-> "todo",
        createdAt |-> now, updatedAt |-> now,
        createdBy |-> FirstIdOfRole(us, "admin"), assignedTo |-> FirstIdOfRole(us, "member")],
       [id |-> uid(n + 2), title |-> "Create wireframes",
        description |-> "Low-fidelity screens for core flows.", status |-> "in-progress",
        createdAt |-> now, updatedAt |-> now,
        createdBy |-> FirstIdOfRole(us, "admin"), assignedTo |-> FirstIdOfRole(us, "admin")] >>
seedIfEmpty ==
    LET us == IF users = <<>> THEN SeededUsers(uidCount) ELSE users
        n == IF users = <<>> THEN uidCount + 3 ELSE uidCount
        ts == IF tasks = <<>> THEN SeededTasks(n, us) ELSE tasks
    IN  Out(us, ts, session, IF tasks = <<>> THEN n + 2 ELSE n,
            Resolve("seedIfEmpty", NoToken, Null))

\* the useState initial values of the page (lines 319-324, 368, 412-420),
\* with auth as the me() of the first render leaves it when nobody is logged
\* in; `loading` is taskLoading
ClientInit ==
    [token |-> NoToken,
     users |-> <<>>,
     tasks |-> <<>>,
     taskTotal |-> 0,
     loading |-> FALSE,
     page |-> 1, pageSize |-> 5, status |-> "all", search |-> ""]

Init ==
    /\ users = SeedUsers
    /\ tasks = SeedTasks
    /\ session = <<>>
    /\ uidCount = 5
    /\ now = 0
    /\ inflight = <<>>
    /\ last = Resolve("none", NoToken, Null)
    /\ gone = {}
    /\ client = ClientInit

(***************************************************************************)
(* api.auth                                                                *)
(***************************************************************************)
\* the `user` member of what login resolves to
LoginUser(user) == user

\* the object login writes under tms_session
LoginSession(user) ==
    <<[token |-> createToken(user), userId |-> user.id, at |-> now]>>

\* mutant: the password is not compared
CredentialsMatch_EmailOnly(u, email, password) == u.email = email
\* the test of users.find in login (lines 140-142)
CredentialsMatch(u, email, password) == u.email = email /\ u.password = password

\* users.find(...) in login: the index of the first match in us, 0 for none
FindUser(us, email, password) ==
    First({k \in 1..Len(us) : CredentialsMatch(us[k], email, password)})

loginBody(email, password) ==
    LET i == FindUser(users, email, password)
    IN  IF i = 0
        THEN Fail("login", NoToken, "Invalid email or password.", 401)
        ELSE Out(users, tasks, LoginSession(users[i]), uidCount,
                 Resolve("login", NoToken, [token |-> createToken(users[i]),
                                   user |-> LoginUser(users[i])]))

\* mutant: the session record is left in place
logoutBody_KeepsSession ==
    Out(users, tasks, session, uidCount, Resolve("logout", NoToken, [ok |-> TRUE]))
logoutBody == Out(users, tasks, <<>>, uidCount, Resolve("logout", NoToken, [ok |-> TRUE]))

\* what me() resolves to: <<>> for null, else <<[token, user]>>
MeResult(sess) ==
    IF sess = <<>> \/ sess[1].token = NoToken THEN <<>>
    ELSE LET i == getUserFromToken(sess[1].token)
         IN  IF i = 0 THEN <<>>
             ELSE <<[token |-> sess[1].token, user |-> users[i]]>>

meBody == Out(users, tasks, session, uidCount, Resolve("me", NoToken, MeResult(session)))

(***************************************************************************)
(* api.users                                                               *)
(***************************************************************************)
\* mutant: the records are returned as stored
Sanitized_AsStored(us) == us
\* users.map(({ password, ...rest }) => rest) (line 173)
Sanitized(us) == [k \in 1..Len(us) |-> Without(us[k], "password")]

UsersListBody(token) ==
    LET i == getUserFromToken(token)
    IN  IF i = 0 THEN Fail("users.list", token, "Unauthorized", 0)
        ELSE Out(users, tasks, session, uidCount,
                 Resolve("users.list", token, Sanitized(users)))

\* may the requester create users (line 178)
UsersCreateAllowed(i) == i # 0 /\ canManageUsers(i)
\* mutant: only the first stored user is compared
EmailExists_FirstOnly(email) == users # <<>> /\ users[1].email = email
\* is the email taken (line 184)
EmailExists(email) == \E k \in 1..Len(users) : users[k].email = email

\* mutant: a createUser for a stored email overwrites that user's role
UsersCreateBody_Overwrites(token, payload) ==
    LET i == getUserFromToken(token)
        k == First({j \in 1..Len(users) : users[j].email = payload.email})
    IN  IF ~UsersCreateAllowed(i)
        THEN Fail("users.create", token, "Forbidden: only admin can create users.", 403)
        ELSE IF k # 0
        THEN Out([users EXCEPT ![k].role = payload.role], tasks, session, uidCount,
                 Resolve("users.create", token, Without(users[k], "password")))
        ELSE Out(Append(users, [id |-> uid(uidCount + 1), email |-> payload.email,
                                role |-> payload.role, password |-> "password"]),
                 tasks, session, uidCount + 1,
                 Resolve("users.create", token,
                         [id |-> uid(uidCount + 1), email |-> payload.email,
                          role |-> payload.role]))
\* mutant: the payload's password is stored as it is
CreatePassword_NoDefault(payload) == Get(payload, "password")
\* payload.password || "password" (line 193)
CreatePassword(payload) ==
    IF Has(payload, "password") /\ ~Falsy(payload.password)
    THEN payload.password ELSE "password"

UsersCreateBody(token, payload) ==
    LET i == getUserFromToken(token)
    IN  IF ~UsersCreateAllowed(i)
        THEN Fail("users.create", token, "Forbidden: only admin can create users.", 403)
        ELSE IF EmailExists(payload.email)
        THEN Fail("users.create", token, "Email already exists.", 409)
        ELSE LET newUser ==
                     [id |-> uid(uidCount + 1),
                      email |-> payload.email,
                      role |-> payload.role,
                      password |-> CreatePassword(payload)]
             IN  Out(Append(users, newUser), tasks, session, uidCount + 1,
                     Resolve("users.create", token, Without(newUser, "password")))

(***************************************************************************)
(* api.tasks                                                               *)
(***************************************************************************)
\* the arguments of list a caller leaves out take their defaults (line 204)
ListPage(q) == IF Has(q, "page") THEN q.page ELSE 1
ListPageSize(q) == IF Has(q, "pageSize") THEN q.pageSize ELSE 5

\* the status filter (lines 211-212)
StatusFilter(ts, q) ==
    IF Has(q, "status") /\ ~Falsy(q.status) /\ q.status # "all"
    THEN SelectSeq(ts, LAMBDA t : t.status = q.status)
    ELSE ts

\* the test of the search filter (lines 216-218)
SearchMatch(t, s) ==
    \/ includes(toLowerCase(Chars(t.title)), s)
    \/ includes(toLowerCase(Chars(IF Falsy(t.description) THEN "" ELSE t.description)), s)
\* t.title.toLowerCase() of a task whose title is no string throws a
\* TypeError out of list (line 217)
SearchThrows(ts, q) ==
    /\ Has(q, "search") /\ ~Falsy(q.search)
    /\ \E k \in 1..Len(ts) : ts[k].title \in {Undefined, Null}
\* the search filter (lines 213-220)
SearchFilter(ts, q) ==
    IF Has(q, "search") /\ ~Falsy(q.search)
    THEN LET s == toLowerCase(Chars(q.search))
         IN  SelectSeq(ts, LAMBDA t : SearchMatch(t, s))
    ELSE ts

\* tasks.sort((a, b) => new Date(b.createdAt) - new Date(a.createdAt)), line
\* 222: Array.prototype.sort is stable, tasks of one createdAt keep their order
RECURSIVE SortByCreatedAtDesc(_)
SortByCreatedAtDesc(ts) ==
    IF ts = <<>> THEN <<>>
    ELSE LET x == ts[Len(ts)]
             front == SortByCreatedAtDesc(SubSeq(ts, 1, Len(ts) - 1))
             k == Cardinality({j \in 1..Len(front) : front[j].createdAt >= x.createdAt})
         IN  SubSeq(front, 1, k) \o <<x>> \o SubSeq(front, k + 1, Len(front))

\* the tasks list paginates (lines 209-222)
Listed(q) == SortByCreatedAtDesc(SearchFilter(StatusFilter(tasks, q), q))

\* the object list resolves to (lines 224-234)
ListResult(q) ==
    LET all == Listed(q)
        start == (ListPage(q) - 1) * ListPageSize(q)
        end == start + ListPageSize(q)
    IN  [items |-> Slice(all, start, end),
         total |-> Len(all),
         page |-> ListPage(q),
         pageSize |-> ListPageSize(q),
         totalPages |-> Ceil(Len(all), ListPageSize(q))]

\* mutant: a member is shown only the tasks assigned to the member
TasksListBody_OwnOnly(token, q) ==
    LET i == getUserFromToken(token)
        r == ListResult(q)
    IN  IF i = 0 THEN Fail("tasks.list", token, "Unauthorized", 0)
        ELSE IF SearchThrows(StatusFilter(tasks, q), q)
        THEN Fail("tasks.list", token, "TypeError", 0)
        ELSE Out(users, tasks, session, uidCount,
                 Resolve("tasks.list", token,
                         IF users[i].role = "member"
                         THEN [r EXCEPT !.items =
                                  SelectSeq(r.items, LAMBDA t : t.assignedTo = users[i].id)]
                         ELSE r))
TasksListBody(token, q) ==
    LET i == getUserFromToken(token)
    IN  IF i = 0 THEN Fail("tasks.list", token, "Unauthorized", 0)
        ELSE IF SearchThrows(StatusFilter(tasks, q), q)
        THEN Fail("tasks.list", token, "TypeError", 0)
        ELSE Out(users, tasks, session, uidCount, Resolve("tasks.list", token, ListResult(q)))

\* mutant: a member's assignee is not forced to the member
CreateAssignee_NotForced(i, payload) ==
    IF Has(payload, "assignedTo") /\ ~Falsy(payload.assignedTo)
    THEN payload.assignedTo ELSE users[i].id
\* assignedTo of the task create stores (lines 242-245)
CreateAssignee(i, payload) ==
    LET assignedTo == IF Has(payload, "assignedTo") /\ ~Falsy(payload.assignedTo)
                      THEN payload.assignedTo ELSE users[i].id
    IN  IF users[i].role = "member" /\ assignedTo # users[i].id
        THEN users[i].id ELSE assignedTo

\* description of the task create stores (line 251)
CreateDescription(payload) ==
    IF Has(payload, "description") /\ ~Falsy(payload.description)
    THEN payload.description ELSE ""

\* status of the task create stores (line 252)
CreateStatus(payload) ==
    IF Has(payload, "status") /\ ~Falsy(payload.status) THEN payload.status ELSE "todo"

TasksCreateBody(token, payload) ==
    LET i == getUserFromToken(token)
    IN  IF i = 0
        THEN Fail("tasks.create", token, "Unauthorized", 0)
        ELSE LET newTask ==
                     [id |-> uid(uidCount + 1),
                      title |-> Get(payload, "title"),
                      description |-> CreateDescription(payload),
                      status |-> CreateStatus(payload),
                      createdAt |-> now,
                      updatedAt |-> now,
                      createdBy |-> users[i].id,
                      assignedTo |-> CreateAssignee(i, payload)]
             IN  Out(users, Append(tasks, newTask), session, uidCount + 1,
                     Resolve("tasks.create", token, newTask))

\* mutant: the payload's assignee is taken from any requester
UpdateAssignee_Anyone(i, t, payload) ==
    IF Has(payload, "assignedTo") /\ payload.assignedTo # Null
    THEN payload.assignedTo ELSE t.assignedTo
\* assignedTo of the task update stores (lines 280-284)
UpdateAssignee(i, t, payload) ==
    LET assignedTo == IF Has(payload, "assignedTo") /\ payload.assignedTo # Null
                      THEN payload.assignedTo ELSE t.assignedTo
    IN  IF Has(payload, "assignedTo") /\ ~canAssignTasks(i)
        THEN t.assignedTo ELSE assignedTo

\* mutant: the spread is written the other way round, { ...payload, ...t }
UpdatedTask_TaskWins(i, t, payload) ==
    Spread(Spread(payload, t),
           [assignedTo |-> UpdateAssignee(i, t, payload), updatedAt |-> now])
\* the record update writes at tasks[idx] (lines 286-291)
UpdatedTask(i, t, payload) ==
    Spread(Spread(t, payload),
           [assignedTo |-> UpdateAssignee(i, t, payload), updatedAt |-> now])

TasksUpdateBody(token, id, payload) ==
    LET i == getUserFromToken(token)
        idx == First({k \in 1..Len(tasks) : tasks[k].id = id})
    IN  IF i = 0 THEN Fail("tasks.update", token, "Unauthorized", 0)
        ELSE IF idx = 0 THEN Fail("tasks.update", token, "Not found", 0)
        ELSE IF ~canUpdateTask(i, tasks[idx])
        THEN Fail("tasks.update", token, "Forbidden: you cannot update this task.", 403)
        ELSE LET next == [tasks EXCEPT ![idx] = UpdatedTask(i, tasks[idx], payload)]
             IN  Out(users, next, session, uidCount, Resolve("tasks.update", token, next[idx]))

\* the tasks remove writes back (line 307)
RemoveFilter(id) == SelectSeq(tasks, LAMBDA x : x.id # id)

TasksRemoveBody(token, id) ==
    LET i == getUserFromToken(token)
        idx == First({k \in 1..Len(tasks) : tasks[k].id = id})
    IN  IF i = 0 THEN Fail("tasks.remove", token, "Unauthorized", 0)
        ELSE IF idx = 0 THEN Fail("tasks.remove", token, "Not found", 0)
        ELSE IF ~canDeleteTask(i, tasks[idx])
        THEN Fail("tasks.remove", token, "Forbidden: you cannot delete this task.", 403)
        ELSE Out(users, RemoveFilter(id), session, uidCount,
                 Resolve("tasks.remove", token, [ok |-> TRUE]))

(***************************************************************************)
(* Actions: a call settles.  The body runs in one step on the store as it  *)
(* is at that moment.  The model stops creating when uid() is used up.     *)
(***************************************************************************)
Apply(out) ==
    /\ out.uidCount > uidCount => out.uidCount <= MaxUid
    /\ users' = out.users
    /\ tasks' = out.tasks
    /\ session' = out.session
    /\ uidCount' = out.uidCount
    /\ last' = out.resp

login(email, password) == Apply(loginBody(email, password)) /\ UNCHANGED <<now, inflight, gone, client>>
logout == Apply(logoutBody) /\ UNCHANGED <<now, inflight, gone, client>>
me == Apply(meBody) /\ UNCHANGED <<now, inflight, gone, client>>
UsersList(token) == Apply(UsersListBody(token)) /\ UNCHANGED <<now, inflight, gone, client>>
UsersCreate(token, payload) ==
    Apply(UsersCreateBody(token, payload)) /\ UNCHANGED <<now, inflight, gone, client>>
TasksList(token, q) == Apply(TasksListBody(token, q)) /\ UNCHANGED <<now, inflight, gone, client>>
TasksCreate(token, payload) ==
    Apply(TasksCreateBody(token, payload)) /\ UNCHANGED <<now, inflight, gone, client>>
TasksUpdate(token, id, payload) ==
    Apply(TasksUpdateBody(token, id, payload)) /\ UNCHANGED <<now, inflight, gone, client>>
TasksRemove(token, id) ==
    Apply(TasksRemoveBody(token, id)) /\ UNCHANGED <<now, inflight, gone, client>>
\* the same call, with its id noted in the history when it succeeds
TasksRemoveNoted(token, id) ==
    /\ Apply(TasksRemoveBody(token, id))
    /\ gone' = IF TasksRemoveBody(token, id).resp.ok THEN gone \cup {id} ELSE gone
    /\ UNCHANGED <<now, inflight, client>>

\* The page is loaded again on the localStorage as it is: the api object is
\* built anew (seedIfEmpty runs), the calls that were waiting are dropped
\* with the old page, and the React state starts from its initial values.
Reload ==
    /\ Apply(seedIfEmpty)
    /\ inflight' = <<>>
    /\ client' = ClientInit
    /\ UNCHANGED <<now, gone>>

\* time passes
Tick ==
    /\ now < MaxTime
    /\ now' = now + 1
    /\ UNCHANGED <<users, tasks, session, uidCount, inflight, last, gone, client>>

(***************************************************************************)
(* Calls in flight.  A call is recorded when it is made, with what the     *)
(* caller could see of the store then (`seen`, the number of records in    *)
(* the collection the call writes: users for users.create, else tasks); its *)
(* body runs when its delay expires, whatever else settled in between.     *)
(***************************************************************************)
\* mutant: createTask writes back the tasks it saw when it was called, with
\* its new task added
CallBody_Stale(c) ==
    CASE c.op = "users.create" -> UsersCreateBody(c.token, c.payload)
      [] c.op = "tasks.create" ->
            LET out == TasksCreateBody(c.token, c.payload)
            IN  [out EXCEPT !.tasks = Append(SubSeq(tasks, 1, c.seen), out.resp.result)]
      [] c.op = "tasks.update" -> TasksUpdateBody(c.token, c.id, c.payload)
CallBody(c) ==
    CASE c.op = "users.create" -> UsersCreateBody(c.token, c.payload)
      [] c.op = "tasks.create" -> TasksCreateBody(c.token, c.payload)
      [] c.op = "tasks.update" -> TasksUpdateBody(c.token, c.id, c.payload)

Issue(c) ==
    /\ Len(inflight) < MaxInflight
    /\ inflight' = Append(inflight, c)
    /\ UNCHANGED <<users, tasks, session, uidCount, now, last, gone, client>>

Settle(k) ==
    /\ Apply(CallBody(inflight[k]))
    /\ inflight' = SubSeq(inflight, 1, k - 1) \o SubSeq(inflight, k + 1, Len(inflight))
    /\ UNCHANGED <<now, gone, client>>

(***************************************************************************)
(* Inputs the callers may pass.  Tokens are strings the caller supplies:   *)
(* none, one without the prefix, one naming no user, or the token of any   *)
(* stored user.  The claims range over these sets at every reachable store.*)
(***************************************************************************)
Obj(k, vals) == {<<>>} \cup {k :> v : v \in vals}
UserIds == {users[k].id : k \in 1..Len(users)}
TaskIds == {tasks[k].id : k \in 1..Len(tasks)}
Tokens ==
    {NoToken, <<"bad-", uid(1)>>, <<TokenPrefix, "ghost">>}
        \cup {createToken(users[k]) : k \in 1..Len(users)}
Emails == {"admin@demo.com", "member@demo.com", "new@demo.com", "dup@x.com"}
Passwords == {"admin", "member", "password", "pw"}
AssigneeInputs == {uid(1), uid(3), "ghost", "", Null}

CreateTaskPayloads ==
    {("title" :> "X") @@ a @@ b :
        a \in Obj("assignedTo", AssigneeInputs), b \in Obj("status", {"done"})}
\* every combination of fields present and absent
UpdateTaskPayloads ==
    {a @@ b @@ c @@ d @@ e :
        a \in Obj("assignedTo", {uid(1), "ghost", Null}),
        b \in Obj("status", {"done"}),
        c \in Obj("id", {uid(5)}),
        d \in Obj("createdBy", {uid(1)}),
        e \in Obj("updatedAt", {1})}
CreateUserPayloads ==
    {[email |-> e, role |-> r] @@ p :
        e \in {"new@demo.com", "dup@x.com", "admin@demo.com"},
        r \in {"member", "manager", "admin"},
        p \in Obj("password", {"pw", ""})}

\* arguments of list
PageSizes == {1, 2, MaxPageSize}
ListFilters ==
    {a @@ b : a \in Obj("status", {"done"}), b \in Obj("search", {"KICK"})}

\* every status and search a caller may ask for, each also left out
ListQueries ==
    {a @@ b : a \in Obj("status", {"all", "", "todo", "done"}),
              b \in Obj("search", {"", "KICK", "Low", "x", "zzz"})}

\* tokens that resolve to no user: absent, without the prefix, or naming an
\* id (or nothing) that no stored user has
BadTokens == {NoToken, <<"bad-", uid(1)>>, <<TokenPrefix, "ghost">>, <<TokenPrefix, "">>}

(***************************************************************************)
(* The calls that drive the store through its states.                      *)
(***************************************************************************)
DriveList ==
    {[page |-> 2, pageSize |-> 5],
     [page |-> 1, pageSize |-> 5, status |-> "all", search |-> ""],
     [page |-> 1, pageSize |-> 2, status |-> "todo", search |-> "KICK"]}
Callers == {NoToken, createToken(users[1]), createToken(users[3])}
DriveCreateTask == {[title |-> "X", assignedTo |-> uid(1)]}
\* one payload that sets every field a caller may rewrite
DriveUpdateTask ==
    {[assignedTo |-> uid(1), status |-> "done", id |-> uid(5), createdBy |-> uid(3)]}
DriveCreateUser ==
    {[email |-> "dup@x.com", role |-> "member", password |-> "pw"],
     [email |-> "new@demo.com", role |-> "admin"],
     [email |-> "admin@demo.com", role |-> "member"]}
DriveCalls ==
    {[op |-> "users.create", token |-> createToken(users[1]), payload |-> p,
      seen |-> Len(users)] :
        p \in {[email |-> "dup@x.com", role |-> "member", password |-> "pw"],
               [email |-> "new@demo.com", role |-> "admin"]}}
    \cup {[op |-> "users.create", token |-> createToken(users[3]),
            payload |-> [email |-> "dup@x.com", role |-> "member", password |-> "pw"],
            seen |-> Len(users)]}
    \cup {[op |-> "tasks.create", token |-> createToken(users[3]),
            payload |-> [title |-> "X"], seen |-> Len(tasks)]}
    \cup {[op |-> "tasks.update", token |-> createToken(users[1]), id |-> uid(4),
            payload |-> [status |-> "done"], seen |-> Len(tasks)]}

(***************************************************************************)
(* SpecTasks: task calls, each settling before the next is made.           *)
(***************************************************************************)
NextTasks ==
    \/ \E t \in Callers, p \in DriveCreateTask : TasksCreate(t, p)
    \/ \E t \in Callers, id \in TaskIds \cup {"ghost"}, p \in DriveUpdateTask :
            TasksUpdate(t, id, p)
    \/ \E t \in Callers, id \in TaskIds \cup {"ghost"} : TasksRemove(t, id)

SpecTasks == Init /\ [][NextTasks]_vars

(***************************************************************************)
(* SpecGone: the task calls of SpecTasks, with the ids of the deleted      *)
(* tasks kept in the history, and reloads of the page in between.          *)
(***************************************************************************)
NextGone ==
    \/ \E t \in Callers, p \in DriveCreateTask : TasksCreate(t, p)
    \/ \E t \in Callers, id \in TaskIds \cup {"ghost"}, p \in DriveUpdateTask :
            TasksUpdate(t, id, p)
    \/ \E t \in Callers, id \in TaskIds \cup {"ghost"} : TasksRemoveNoted(t, id)
    \/ Reload

SpecGone == Init /\ [][NextGone]_vars

(***************************************************************************)
(* SpecAuth: session and user calls, each settling before the next.        *)
(***************************************************************************)
NextAuth ==
    \/ \E e \in Emails, p \in Passwords : login(e, p)
    \/ logout
    \/ me
    \/ \E t \in Tokens : UsersList(t)
    \/ \E t \in Tokens, p \in DriveCreateUser : UsersCreate(t, p)
    \/ Reload
    \/ Tick

SpecAuth == Init /\ [][NextAuth]_vars

(***************************************************************************)
(* SpecConc: calls are made while earlier ones are still waiting in their  *)
(* delay, and settle in any order.                                         *)
(***************************************************************************)
NextConc ==
    \/ \E c \in DriveCalls : Issue(c)
    \/ \E k \in 1..Len(inflight) : Settle(k)

SpecConc == Init /\ [][NextConc]_vars

(***************************************************************************)
(* SpecList: list calls on a store that earlier sessions of the page have  *)
(* left in localStorage (seedIfEmpty keeps what it finds): the seeded      *)
(* tasks and up to MaxListed tasks that createTask calls of the admin      *)
(* added, at times that do not decrease.                                   *)
(***************************************************************************)
ListedPayloads ==
    {[title |-> "Fix", description |-> "kick it", status |-> "done"],
     [description |-> "Low", assignedTo |-> uid(3)]}
\* the task create stores as the k-th one after the seed, at time `at`
CreatedTask(k, payload, at) ==
    [id |-> uid(5 + k),
     title |-> Get(payload, "title"),
     description |-> CreateDescription(payload),
     status |-> CreateStatus(payload),
     createdAt |-> at,
     updatedAt |-> at,
     createdBy |-> uid(1),
     assignedTo |-> IF Has(payload, "assignedTo") THEN payload.assignedTo ELSE uid(1)]

InitList ==
    /\ users = SeedUsers
    /\ \E n \in 0..MaxListed :
        \E at \in [1..n -> 0..MaxTime] :
            /\ \A k \in 1..n : k > 1 => at[k - 1] <= at[k]
            /\ \E p \in [1..n -> ListedPayloads] :
                    tasks = SeedTasks \o [k \in 1..n |-> CreatedTask(k, p[k], at[k])]
            /\ uidCount = 5 + n
            /\ now = IF n = 0 THEN 0 ELSE at[n]
    /\ session = <<>>
    /\ inflight = <<>>
    /\ last = Resolve("none", NoToken, Null)
    /\ gone = {}
    /\ client = ClientInit

NextList ==
    \/ \E q \in DriveList : TasksList(createToken(users[3]), q)
    \/ UsersList(createToken(users[2]))

SpecList == InitList /\ [][NextList]_vars

(***************************************************************************)
(* The page (the App component).  Its handlers call the api and go on when *)
(* the call settles; a call in flight carries the token and the taskQuery  *)
(* of the render whose handler made it.  `inflight` holds the calls in the  *)
(* order in which their timers fire.  Calls with the default delay (250    *)
(* ms) settle in the order they were made.  logout waits 100 ms only: it   *)
(* fires before the calls made less than 150 ms before it, so it is put    *)
(* before any number of the latest calls, but never before a call whose    *)
(* timer is due (`due`: a call made in the same step as one that has       *)
(* settled) nor before an earlier logout.                                  *)
(***************************************************************************)
RECURSIVE TrimStart(_)
TrimStart(cs) == IF cs # <<>> /\ Head(cs) = " " THEN TrimStart(Tail(cs)) ELSE cs
RECURSIVE TrimEnd(_)
TrimEnd(cs) ==
    IF cs # <<>> /\ cs[Len(cs)] = " " THEN TrimEnd(SubSeq(cs, 1, Len(cs) - 1)) ELSE cs
\* String.prototype.trim on the texts typed into the search box
trim(s) ==
    LET cs == TrimEnd(TrimStart(Chars(s)))
    IN  CHOOSE r \in {"", "KICK", s} : Chars(r) = cs

\* the arguments fetchTasks passes to list (lines 438-444)
TaskQuery(cl) ==
    [page |-> cl.page, pageSize |-> cl.pageSize, status |-> cl.status,
     search |-> trim(cl.search)]

\* fetchTasks() of a render with this token and taskQuery (lines 434-452),
\* up to its await: the page cl and the calls in flight fl afterwards
fetchTasks(cl, fl, token, q) ==
    IF token = NoToken THEN [client |-> cl, inflight |-> fl]
    ELSE [client |-> [cl EXCEPT !.loading = TRUE],
          inflight |-> Append(fl, [op |-> "tasks.list", token |-> token, q |-> q,
                                   due |-> FALSE])]

\* fetchUsers() up to its await (lines 377-385)
fetchUsers(cl, fl, token) ==
    IF token = NoToken THEN [client |-> cl, inflight |-> fl]
    ELSE [client |-> cl, inflight |-> Append(fl, [op |-> "users.list", token |-> token])]

\* the effects that run after a render in which auth.token or a field of
\* taskQuery has changed (lines 387-390, 454-463)
Effects(old, cl, fl) ==
    LET a == IF cl.token # old.token THEN fetchUsers(cl, fl, cl.token)
             ELSE [client |-> cl, inflight |-> fl]
    IN  IF cl.token # old.token \/ TaskQuery(cl) # TaskQuery(old)
           \/ cl.search # old.search
        THEN fetchTasks(a.client, a.inflight, cl.token, TaskQuery(cl))
        ELSE a

\* a handler sets the state to cl and the render that follows runs its effects
Render(cl) ==
    LET e == Effects(client, cl, inflight)
    IN  /\ client' = e.client
        /\ inflight' = e.inflight
        /\ UNCHANGED <<users, tasks, session, uidCount, now, last, gone>>

\* the controls are there for a logged-in user (line 1240)
LoggedIn == client.token # NoToken
TotalPagesShown == Ceil(client.taskTotal, client.pageSize)

\* Prev and Next (lines 975-990)
ClickPrev ==
    /\ LoggedIn /\ Len(inflight) < MaxInflight
    /\ ~(client.page <= 1)
    /\ Render([client EXCEPT !.page = client.page - 1])
ClickNext ==
    /\ LoggedIn /\ Len(inflight) < MaxInflight
    /\ ~(client.page >= TotalPagesShown)
    /\ Render([client EXCEPT !.page = client.page + 1])

\* the status and page size selects and the search box (lines 899-937)
SetStatus(status) ==
    /\ LoggedIn /\ Len(inflight) < MaxInflight
    /\ status # client.status
    /\ Render([client EXCEPT !.status = status, !.page = 1])
SetPageSize(n) ==
    /\ LoggedIn /\ Len(inflight) < MaxInflight
    /\ n # client.pageSize
    /\ Render([client EXCEPT !.pageSize = n, !.page = 1])
SetSearch(text) ==
    /\ LoggedIn /\ Len(inflight) < MaxInflight
    /\ text # client.search
    /\ Render([client EXCEPT !.search = text, !.page = 1])

\* the Refresh button (lines 938-943)
Refresh ==
    /\ LoggedIn /\ Len(inflight) < MaxInflight
    /\ LET f == fetchTasks(client, inflight, client.token, TaskQuery(client))
       IN  client' = f.client /\ inflight' = f.inflight
    /\ UNCHANGED <<users, tasks, session, uidCount, now, last, gone>>

\* is the Delete button of a listed task there (lines 1010-1011, 1147)
canEdit(task) ==
    LET i == getUserFromToken(client.token)
    IN  i # 0 /\ (users[i].role \in {"admin", "manager"}
                  \/ (users[i].role = "member" /\ task.createdBy = users[i].id))

\* handleDeleteTask up to its await, the confirm answered with OK (500-503)
ClickDelete(k) ==
    /\ LoggedIn /\ Len(inflight) < MaxInflight
    /\ ~client.loading
    /\ k \in 1..Len(client.tasks)
    /\ canEdit(client.tasks[k])
    /\ inflight' = Append(inflight, [op |-> "tasks.remove", token |-> client.token,
                                     id |-> client.tasks[k].id, q |-> TaskQuery(client)])
    /\ UNCHANGED <<users, tasks, session, uidCount, now, last, gone, client>>

\* doLogin and doLogout up to their await (lines 517-521, 530-531)
doLogin(email, password) ==
    /\ ~LoggedIn /\ Len(inflight) < MaxInflight
    /\ inflight' = Append(inflight, [op |-> "login", email |-> email, password |-> password])
    /\ UNCHANGED <<users, tasks, session, uidCount, now, last, gone, client>>
IsDue(c) == c.op = "tasks.list" /\ c.due
\* j calls in flight were made 150 ms or more before the logout
doLogout(j) ==
    /\ LoggedIn /\ Len(inflight) < MaxInflight
    /\ j \in 0..Len(inflight)
    /\ \A k \in (j + 1)..Len(inflight) : inflight[k].op # "logout" /\ ~IsDue(inflight[k])
    /\ inflight' = SubSeq(inflight, 1, j) \o <<[op |-> "logout"]>>
                        \o SubSeq(inflight, j + 1, Len(inflight))
    /\ UNCHANGED <<users, tasks, session, uidCount, now, last, gone, client>>

\* the api method a call of the page runs when its delay is over
ClientCallBody(c) ==
    CASE c.op = "tasks.list" -> TasksListBody(c.token, c.q)
      [] c.op = "users.list" -> UsersListBody(c.token)
      [] c.op = "tasks.remove" -> TasksRemoveBody(c.token, c.id)
      [] c.op = "login" -> loginBody(c.email, c.password)
      [] c.op = "logout" -> logoutBody

\* what the handler does with the outcome r of its call c, the other calls
\* in flight being fl: the rest of fetchTasks (445-451), fetchUsers
\* (381-384), handleDeleteTask (504-508), doLogin (522-527), doLogout (532-536)
Continue(c, r, fl) ==
    CASE c.op = "tasks.list" ->
            [client |-> IF r.ok
                        THEN [client EXCEPT !.tasks = r.result.items,
                                            !.taskTotal = r.result.total,
                                            !.loading = FALSE]
                        ELSE [client EXCEPT !.loading = FALSE],
             inflight |-> fl]
      [] c.op = "users.list" ->
            [client |-> IF r.ok THEN [client EXCEPT !.users = r.result] ELSE client,
             inflight |-> fl]
      [] c.op = "tasks.remove" ->
            IF r.ok THEN fetchTasks(client, fl, c.token, c.q)
            ELSE [client |-> client, inflight |-> fl]
      [] c.op = "login" ->
            IF r.ok THEN Effects(client, [client EXCEPT !.token = r.result.token], fl)
            ELSE [client |-> client, inflight |-> fl]
      [] c.op = "logout" ->
            Effects(client, [client EXCEPT !.token = NoToken, !.tasks = <<>>,
                                           !.users = <<>>], fl)

\* the calls left when c has settled; fetchUsers is called by the effect
\* of auth.token only (line 388), in the same step as the fetchTasks of the
\* other effect (line 455), whose timer is then due as well
Left(c, fl) ==
    IF c.op = "users.list" /\ fl # <<>> /\ fl[1].op = "tasks.list" /\ fl[1].token = c.token
    THEN <<[fl[1] EXCEPT !.due = TRUE]>> \o Tail(fl)
    ELSE fl

\* the timer of the first call fires: the api method runs and the handler
\* goes on
ClientSettle ==
    /\ inflight # <<>>
    /\ LET c == Head(inflight)
           out == ClientCallBody(c)
           n == Continue(c, out.resp, Left(c, Tail(inflight)))
       IN  /\ Apply(out)
           /\ client' = n.client
           /\ inflight' = n.inflight
    /\ UNCHANGED <<now, gone>>

\* what the user may pick or type
StatusOptions == {"all", "done"}
PageSizeOptions == {5, 10}
SearchTexts == {"", " KICK "}

(***************************************************************************)
(* SpecPage: one user at the page, on a store that holds the seeded tasks  *)
(* and MaxListed - 1 tasks created since.                                  *)
(***************************************************************************)
InitPage ==
    /\ users = SeedUsers
    /\ tasks = SeedTasks \o
                [k \in 1..(MaxListed - 1) |-> CreatedTask(k, [title |-> "Fix",
                                                   description |-> "kick it",
                                                   status |-> "done"], 1)]
    /\ uidCount = 5 + (MaxListed - 1)
    /\ now = 1
    /\ session = <<>>
    /\ inflight = <<>>
    /\ last = Resolve("none", NoToken, Null)
    /\ gone = {}
    /\ client = ClientInit

NextPage ==
    \/ doLogin("admin@demo.com", "admin")
    \/ ClickPrev
    \/ ClickNext
    \/ \E s \in StatusOptions : SetStatus(s)
    \/ \E n \in PageSizeOptions : SetPageSize(n)
    \/ \E text \in SearchTexts : SetSearch(text)
    \/ Refresh
    \/ \E k \in 1..Len(client.tasks) : ClickDelete(k)
    \/ ClientSettle

SpecPage == InitPage /\ [][NextPage]_vars

(***************************************************************************)
(* SpecLogout: users log in and out of the page on the seeded store while  *)
(* fetches are in flight.                                                  *)
(***************************************************************************)
NextLogout ==
    \/ \E u \in {1, 3} : doLogin(users[u].email, users[u].password)
    \/ \E j \in 0..MaxInflight : doLogout(j)
    \/ Refresh
    \/ \E n \in PageSizeOptions : SetPageSize(n)
    \/ ClientSettle

SpecLogout == Init /\ [][NextLogout]_vars

(***************************************************************************)
(* Vocabulary of the claims.                                               *)
(***************************************************************************)
IsMember(i) == i # 0 /\ users[i].role = "member"
MemberToken == createToken(users[3])
\* the tokens that resolve to a member
MemberTokens == {createToken(users[k]) : k \in {j \in 1..Len(users) : users[j].role = "member"}}
\* number of places of `seq` that hold the record x
Count(seq, x) == Cardinality({k \in 1..Len(seq) : seq[k] = x})
\* the task an id resolves to, 0 if none
Resolves(id) == First({k \in 1..Len(tasks) : tasks[k].id = id})
IsThrow(resp, message, status) ==
    ~resp.ok /\ resp.error = [message |-> message, status |-> status]
\* the body threw Unauthorized and wrote nothing
Unauthorized(out) ==
    /\ IsThrow(out.resp, "Unauthorized", 0)
    /\ out.users = users
    /\ out.tasks = tasks
    /\ out.session = session
\* the five calls that ask for a session all reject the token
RejectsToken(t) ==
    /\ Unauthorized(UsersListBody(t))
    /\ \A q \in DriveList :
            Unauthorized(TasksListBody(t, q))
    /\ \A p \in DriveCreateTask : Unauthorized(TasksCreateBody(t, p))
    /\ \A id \in TaskIds \cup {"ghost"} :
            /\ \A p \in DriveUpdateTask \cup {<<>>} : Unauthorized(TasksUpdateBody(t, id, p))
            /\ Unauthorized(TasksRemoveBody(t, id))

(***************************************************************************)
(* C1: a deleteTask call made by a member never removes a task whose       *)
(* createdBy differs from the member's id, in any reachable store: every   *)
(* such task is in the store after the call as often as before it.         *)
(***************************************************************************)
C1_MemberRemovesOnlyOwn ==
    \A t \in MemberTokens, id \in TaskIds :
        LET i == getUserFromToken(t)
            out == TasksRemoveBody(t, id)
        IN  IsMember(i) =>
                \A k \in 1..Len(tasks) :
                    tasks[k].createdBy # users[i].id =>
                        Count(out.tasks, tasks[k]) = Count(tasks, tasks[k])

(***************************************************************************)
(* C2: updateTask by a member on an existing task whose createdBy is not   *)
(* the member's id rejects with Forbidden (403) for every payload and      *)
(* leaves the task collection as it was.                                   *)
(***************************************************************************)
C2_MemberUpdateForbidden ==
    \A t \in MemberTokens, id \in TaskIds, p \in UpdateTaskPayloads :
        LET i == getUserFromToken(t)
            out == TasksUpdateBody(t, id, p)
        IN  (IsMember(i) /\ tasks[Resolves(id)].createdBy # users[i].id) =>
                /\ IsThrow(out.resp, "Forbidden: you cannot update this task.", 403)
                /\ out.tasks = tasks
                /\ out.users = users

\* a member's update of another user's task has been rejected
C2_Witness ==
    /\ last.op = "tasks.update"
    /\ last.by = MemberToken
    /\ IsThrow(last, "Forbidden: you cannot update this task.", 403)
    /\ \E k \in 1..Len(tasks) : tasks[k].createdBy # users[3].id

(***************************************************************************)
(* C3: createTask by a member stores one new task whose assignedTo and     *)
(* createdBy are both the member's id, whatever assignedTo the payload     *)
(* carries (none, "", null, the member, another user, an unknown id); its  *)
(* status is "todo" when the payload gives none.                           *)
(***************************************************************************)
C3_MemberCreateSelfAssigned ==
    \A t \in MemberTokens, p \in CreateTaskPayloads :
        LET i == getUserFromToken(t)
            out == TasksCreateBody(t, p)
            new == out.tasks[Len(out.tasks)]
        IN  IsMember(i) =>
                /\ out.resp.ok
                /\ out.tasks = Append(tasks, new)
                /\ out.resp.result = new
                /\ new.assignedTo = users[i].id
                /\ new.createdBy = users[i].id
                /\ (~Has(p, "status") => new.status = "todo")

\* a member's create that asked for another assignee has stored the member
C3_Witness ==
    /\ last.op = "tasks.create"
    /\ last.by = MemberToken
    /\ last.ok
    /\ last.result.assignedTo = users[3].id
    /\ last.result.createdBy = users[3].id
    /\ last.result.status = "todo"
    /\ tasks # <<>> /\ tasks[Len(tasks)] = last.result

(***************************************************************************)
(* C4 as claimed: the equality assignedTo = createdBy of a task whose      *)
(* creator is a member is never broken by a later operation of any user.   *)
(***************************************************************************)
MemberCreated(task) ==
    \E k \in 1..Len(users) : users[k].id = task.createdBy /\ users[k].role = "member"

C4_EqualityNeverBroken ==
    [][\A k \in 1..Len(tasks) :
          (/\ Len(tasks') = Len(tasks)
           /\ MemberCreated(tasks[k])
           /\ tasks[k].assignedTo = tasks[k].createdBy
           /\ tasks'[k].createdBy = tasks[k].createdBy)
          => tasks'[k].assignedTo = tasks'[k].createdBy]_vars

(***************************************************************************)
(* C4 as amended: no updateTask by a member changes the assignedTo of any  *)
(* task; the equality a member's createTask establishes is broken only by  *)
(* an update of an admin or manager (or one that rewrites createdBy).      *)
(***************************************************************************)
C4_MemberNeverReassigns ==
    \A t \in MemberTokens, id \in TaskIds \cup {"ghost"}, p \in UpdateTaskPayloads :
        LET i == getUserFromToken(t)
            out == TasksUpdateBody(t, id, p)
        IN  IsMember(i) =>
                /\ Len(out.tasks) = Len(tasks)
                /\ \A k \in 1..Len(tasks) : out.tasks[k].assignedTo = tasks[k].assignedTo

\* a member has updated an own task with a payload naming another assignee
C4_Witness ==
    /\ last.op = "tasks.update"
    /\ last.by = MemberToken
    /\ last.ok
    /\ last.result.status = "done"
    /\ last.result.assignedTo = last.result.createdBy
    /\ last.result.assignedTo # uid(1)

(***************************************************************************)
(* C5 as claimed: a member's updateTask on an own task with a payload      *)
(* holding assignedTo succeeds, keeps assignedTo, and writes every other   *)
(* field of the payload to the task.                                       *)
(***************************************************************************)
OwnUpdate(t, id, p) ==
    LET i == getUserFromToken(t)
    IN  /\ IsMember(i)
        /\ Has(p, "assignedTo")
        /\ Resolves(id) # 0
        /\ tasks[Resolves(id)].createdBy = users[i].id

C5_EveryOtherFieldWritten ==
    \A t \in MemberTokens, id \in TaskIds, p \in UpdateTaskPayloads :
        LET out == TasksUpdateBody(t, id, p)
            idx == Resolves(id)
        IN  OwnUpdate(t, id, p) =>
                /\ out.resp.ok
                /\ out.tasks[idx].assignedTo = tasks[idx].assignedTo
                /\ \A f \in DOMAIN p \ {"assignedTo"} : out.tasks[idx][f] = p[f]

(***************************************************************************)
(* C5 as amended: ... writes every other field of the payload except       *)
(* updatedAt, which is set to the time of the call; no other task changes. *)
(***************************************************************************)
C5_OtherFieldsButUpdatedAt ==
    \A t \in MemberTokens, id \in TaskIds, p \in UpdateTaskPayloads :
        LET out == TasksUpdateBody(t, id, p)
            idx == Resolves(id)
        IN  OwnUpdate(t, id, p) =>
                /\ out.resp.ok
                /\ out.resp.result = out.tasks[idx]
                /\ out.tasks[idx].assignedTo = tasks[idx].assignedTo
                /\ out.tasks[idx].updatedAt = now
                /\ \A f \in DOMAIN p \ {"assignedTo", "updatedAt"} :
                        out.tasks[idx][f] = p[f]
                /\ \A f \in DOMAIN tasks[idx] \ (DOMAIN p \cup {"updatedAt"}) :
                        out.tasks[idx][f] = tasks[idx][f]
                /\ \A k \in 1..Len(tasks) : k # idx => out.tasks[k] = tasks[k]

\* a member's update with assignedTo and status has changed the status only
C5_Witness ==
    /\ last.op = "tasks.update"
    /\ last.by = MemberToken
    /\ last.ok
    /\ last.result.status = "done"
    /\ last.result.createdBy = users[3].id
    /\ last.result.assignedTo = users[3].id
    /\ \E k \in 1..Len(tasks) : tasks[k] = last.result

(***************************************************************************)
(* C6: createUser by a requester whose role is not admin rejects with      *)
(* Forbidden (403) and leaves the users as they were; a createUser that    *)
(* adds a user was called by an admin.                                     *)
(***************************************************************************)
C6_OnlyAdminCreatesUsers ==
    \A t \in Tokens, p \in CreateUserPayloads :
        LET i == getUserFromToken(t)
            out == UsersCreateBody(t, p)
        IN  /\ (i # 0 /\ users[i].role # "admin") =>
                    /\ IsThrow(out.resp, "Forbidden: only admin can create users.", 403)
                    /\ out.users = users
            /\ out.users # users => (i # 0 /\ users[i].role = "admin")

\* the manager's createUser has been rejected
C6_Witness ==
    /\ last.op = "users.create"
    /\ last.by = createToken(users[2])
    /\ IsThrow(last, "Forbidden: only admin can create users.", 403)
    /\ users = SeedUsers

(***************************************************************************)
(* C7: no two stored users share an email, also when createUser calls are  *)
(* in flight together: an admin's createUser with a stored email rejects   *)
(* with "Email already exists." (409) and leaves the users as they were,   *)
(* and one with a new email adds exactly that user.                        *)
(***************************************************************************)
EmailsUnique ==
    \A j, k \in 1..Len(users) : j # k => users[j].email # users[k].email

C7_EmailsStayUnique ==
    /\ EmailsUnique
    /\ \A t \in Tokens, p \in CreateUserPayloads :
        LET i == getUserFromToken(t)
            out == UsersCreateBody(t, p)
            stored == \E k \in 1..Len(users) : users[k].email = p.email
        IN  (i # 0 /\ users[i].role = "admin") =>
                IF stored
                THEN /\ IsThrow(out.resp, "Email already exists.", 409)
                     /\ out.users = users
                ELSE /\ out.resp.ok
                     /\ Len(out.users) = Len(users) + 1
                     /\ SubSeq(out.users, 1, Len(users)) = users
                     /\ out.users[Len(out.users)].email = p.email

\* one of two createUser calls made for the same new email has added the
\* user; the other, made before that, is still waiting in its delay
C7_Witness ==
    /\ Len(users) = 4
    /\ last.op = "users.create" /\ last.ok
    /\ last.result.email = users[4].email
    /\ \E k \in 1..Len(inflight) :
        /\ inflight[k].op = "users.create"
        /\ inflight[k].token = createToken(users[1])
        /\ inflight[k].payload.email = users[4].email
        /\ inflight[k].seen = 3

(***************************************************************************)
(* C8: for every stored user U, login(U.email, U.password) resolves to the *)
(* token of U and the user U, and a currentSession (me) that settles next  *)
(* resolves to that token and user U.                                      *)
(***************************************************************************)
C8_LoginThenSession ==
    \A k \in 1..Len(users) :
        LET U == users[k]
            out == loginBody(U.email, U.password)
        IN  /\ out.resp.ok
            /\ out.resp.result.token = createToken(U)
            /\ out.resp.result.user.id = U.id
            /\ out.resp.result.user.email = U.email
            /\ out.users = users
            /\ MeResult(out.session) = <<[token |-> out.resp.result.token, user |-> U]>>

\* a user made by createUser has logged in and me has returned that user
C8_Witness ==
    /\ Len(users) > 3
    /\ last.op = "me"
    /\ last.result = <<[token |-> createToken(users[4]), user |-> users[4]]>>

(***************************************************************************)
(* C9: login with an email and password that no stored user has both of    *)
(* rejects with "Invalid email or password." (401) and leaves the session  *)
(* record, the users and the tasks as they were.                           *)
(***************************************************************************)
C9_BadLoginChangesNothing ==
    \A e \in Emails, p \in Passwords :
        LET out == loginBody(e, p)
        IN  (~\E k \in 1..Len(users) : users[k].email = e /\ users[k].password = p) =>
                /\ IsThrow(out.resp, "Invalid email or password.", 401)
                /\ out.session = session
                /\ out.users = users
                /\ out.tasks = tasks

\* a login has failed while the admin's session is active, and it still is
C9_Witness ==
    /\ last.op = "login"
    /\ IsThrow(last, "Invalid email or password.", 401)
    /\ session # <<>>
    /\ session[1].userId = users[1].id

(***************************************************************************)
(* C10: the user record a successful login resolves to has no password     *)
(* field, for every stored user.                                           *)
(***************************************************************************)
C10_LoginUserSanitized ==
    \A k \in 1..Len(users) :
        LET out == loginBody(users[k].email, users[k].password)
        IN  out.resp.ok => ~Has(out.resp.result.user, "password")

(***************************************************************************)
(* C11: logout succeeds from every state, removes the session record and   *)
(* leaves users and tasks alone; a logout that settles right after a       *)
(* logout changes nothing; while there is no session record me (the        *)
(* currentSession call) resolves to null, and only a successful login      *)
(* brings a session record back.                                           *)
(***************************************************************************)
C11_LogoutIdempotent ==
    /\ [](/\ logoutBody.resp.ok
          /\ logoutBody.session = <<>>
          /\ logoutBody.users = users
          /\ logoutBody.tasks = tasks
          /\ (session = <<>> => logoutBody.session = session)
          /\ (session = <<>> => meBody.resp.result = <<>>)
          /\ (last.op = "logout" => session = <<>>))
    /\ [][/\ (last.op = "logout" /\ last'.op = "logout") =>
                (users' = users /\ tasks' = tasks /\ session' = session)
          /\ (session = <<>> /\ session' # <<>>) => (last'.op = "login" /\ last'.ok)
          /\ (session = <<>> /\ last'.op = "me") => last'.result = <<>>]_vars

\* a logout has settled while a user made by createUser exists, and there is
\* no session record
C11_Witness ==
    /\ last.op = "logout"
    /\ last.ok
    /\ session = <<>>
    /\ Len(users) > 3
    /\ MeResult(session) = <<>>

(***************************************************************************)
(* C12: when a logout removes a session record, the token that record      *)
(* holds (the one login issued) is rejected with Unauthorized by           *)
(* listUsers, listTasks, createTask, updateTask and deleteTask in the      *)
(* store the logout leaves behind.                                         *)
(***************************************************************************)
C12_TokenDeadAfterLogout ==
    [][\A t \in Tokens :
          (session # <<>> /\ session[1].token = t /\ last'.op = "logout")
              => RejectsToken(t)']_vars

(***************************************************************************)
(* C13: listUsers, listTasks, createTask, updateTask and deleteTask called *)
(* with a token that is absent, lacks the prefix, or names no stored user  *)
(* throw Unauthorized and leave users, tasks and the session record as     *)
(* they were, for the id of every stored task and an unknown one.          *)
(***************************************************************************)
C13_BadTokenUnauthorized ==
    \A t \in BadTokens :
        /\ getUserFromToken(t) = 0
        /\ Unauthorized(UsersListBody(t))
        /\ \A q \in DriveList : Unauthorized(TasksListBody(t, q))
        /\ \A p \in DriveCreateTask \cup {[title |-> "X"]} :
                Unauthorized(TasksCreateBody(t, p))
        /\ \A id \in TaskIds \cup {"ghost"} :
                /\ \A p \in DriveUpdateTask \cup {<<>>, [status |-> "done"]} :
                        Unauthorized(TasksUpdateBody(t, id, p))
                /\ Unauthorized(TasksRemoveBody(t, id))

\* an updateTask without a token has been rejected on a store that holds a
\* task made by createTask
C13_Witness ==
    /\ last.op = "tasks.update"
    /\ last.by = NoToken
    /\ IsThrow(last, "Unauthorized", 0)
    /\ Len(tasks) > 2

(***************************************************************************)
(* What the specification says list paginates, in its own words.           *)
(***************************************************************************)
\* the characters of a text field; a field that is not set has none
TextOf(v) == IF v \in {Undefined, Null} THEN <<>> ELSE Chars(v)
\* two characters are the same letter, whatever their case
SameLetter(a, b) ==
    a = b \/ \E j \in 1..Len(UpperCase) : {a, b} = {UpperCase[j], LowerCase[j]}
\* needle occurs in hay as a substring, case-insensitively
Occurs(needle, hay) ==
    \E k \in 0..(Len(hay) - Len(needle)) :
        \A m \in 1..Len(needle) : SameLetter(hay[k + m], needle[m])
\* the task passes the status filter and the search filter of q (an empty
\* status or search counts as one that is absent)
Matches(t, q) ==
    /\ (~Has(q, "status") \/ q.status = "" \/ q.status = "all" \/ t.status = q.status)
    /\ \/ ~Has(q, "search") \/ q.search = ""
       \/ Occurs(Chars(q.search), TextOf(t.title))
       \/ Occurs(Chars(q.search), TextOf(t.description))
\* `all` holds exactly the stored tasks that match q, newest first
IsListOf(all, q) ==
    /\ \A j, k \in 1..Len(all) : j < k => all[j].createdAt >= all[k].createdAt
    /\ Len(all) = Cardinality({k \in 1..Len(tasks) : Matches(tasks[k], q)})
    /\ \A k \in 1..Len(tasks) :
            Count(all, tasks[k]) = IF Matches(tasks[k], q) THEN Count(tasks, tasks[k]) ELSE 0
\* the items of pages 1..n of the query q, one after the other
RECURSIVE ConcatPages(_, _)
ConcatPages(q, n) ==
    IF n = 0 THEN <<>>
    ELSE ConcatPages(q, n - 1) \o ListResult(("page" :> n) @@ q).items

(***************************************************************************)
(* C14: for every page size P >= 1 and every filter under which list       *)
(* resolves, with T the number of stored tasks that match: total = T and   *)
(* totalPages = ceil(T / P) on every page, every page but the last holds P *)
(* items, and the items of pages 1..totalPages, one after the other, are   *)
(* exactly the matching tasks, newest first, none twice and none left out. *)
(***************************************************************************)
C14_PagesPartition ==
    \A P \in PageSizes, f \in ListFilters :
        LET q == ("pageSize" :> P) @@ f
            r1 == TasksListBody(MemberToken, q).resp
            T == Cardinality({k \in 1..Len(tasks) : Matches(tasks[k], q)})
        IN  r1.ok =>
                LET n == r1.result.totalPages
                    all == ConcatPages(q, n)
                IN  /\ r1.result.total = T
                    /\ n * P >= T /\ (n - 1) * P < T
                    /\ IsListOf(all, q)
                    /\ \A page \in 1..n :
                        LET r == TasksListBody(MemberToken, ("page" :> page) @@ q).resp
                        IN  /\ r.ok
                            /\ r.result.total = T
                            /\ r.result.totalPages = n
                            /\ r.result.page = page
                            /\ Len(r.result.items) = IF page < n THEN P ELSE T - (n - 1) * P

\* page 2 of size 5 over 7 tasks has returned the 2 oldest, total 7 and
\* totalPages 2
C14_Witness ==
    /\ last.op = "tasks.list" /\ last.ok
    /\ Len(tasks) = 7
    /\ \A k \in 1..Len(tasks) : tasks[k].createdAt = 0 <=> k <= 2
    /\ last.result.page = 2 /\ last.result.pageSize = 5
    /\ last.result.total = 7 /\ last.result.totalPages = 2
    /\ last.result.items = <<tasks[1], tasks[2]>>

(***************************************************************************)
(* C15: list with a page number outside 1..totalPages (above totalPages,   *)
(* zero, or negative) resolves to an empty items list, with total and      *)
(* totalPages those of the filtered set.                                   *)
(***************************************************************************)
C15_OutOfRangeEmpty ==
    \A P \in PageSizes, page \in (0 - 2)..(Len(tasks) + 2) :
        LET q == [page |-> page, pageSize |-> P]
            r == TasksListBody(MemberToken, q).resp
        IN  /\ r.ok
            /\ r.result.total = Len(tasks)
            /\ r.result.totalPages = Ceil(Len(tasks), P)
            /\ (page < 1 \/ page > r.result.totalPages) => r.result.items = <<>>

(***************************************************************************)
(* C16: for every status and search, and for every valid user who asks,    *)
(* list resolves, and the tasks it paginates (all of them on one page that *)
(* is large enough) are exactly the stored tasks that pass the status      *)
(* filter and the case-insensitive search on title or description, newest  *)
(* first; the result is the same for every valid user.                     *)
(***************************************************************************)
C16_ListIsFilteredSet ==
    \A q \in ListQueries :
        LET one == ("pageSize" :> Len(tasks) + 1) @@ q
        IN  \A k \in 1..Len(users) :
                LET r == TasksListBody(createToken(users[k]), one).resp
                IN  /\ r.ok
                    /\ IsListOf(r.result.items, q)
                    /\ r.result = TasksListBody(createToken(users[1]), one).resp.result

(***************************************************************************)
(* C17: every task's createdBy is the id of a stored user, and so is its   *)
(* assignedTo when it is set, in the store and after every createTask and  *)
(* updateTask of any user with any assignedTo in the payload.              *)
(***************************************************************************)
RefsResolve(ts) ==
    \A k \in 1..Len(ts) :
        /\ ts[k].createdBy \in UserIds
        /\ (~Falsy(ts[k].assignedTo) => ts[k].assignedTo \in UserIds)

C17_ReferencesResolve ==
    /\ RefsResolve(tasks)
    /\ \A j \in 1..Len(users) :
        /\ \A p \in CreateTaskPayloads :
                RefsResolve(TasksCreateBody(createToken(users[j]), p).tasks)
        /\ \A id \in TaskIds, p \in Obj("assignedTo", AssigneeInputs) :
                RefsResolve(TasksUpdateBody(createToken(users[j]), id, p).tasks)

(***************************************************************************)
(* C18: for every user and every stored task canUpdateTask and             *)
(* canDeleteTask agree, and for an admin or a manager both hold: their     *)
(* updateTask of a stored task succeeds and stores the assignedTo the      *)
(* payload names, whoever that is, their deleteTask succeeds, and neither  *)
(* call is ever Forbidden.                                                 *)
(***************************************************************************)
ReassignPayloads ==
    {<<>>, [status |-> "done"]} \cup {[assignedTo |-> u] : u \in UserIds}

C18_UpdateEqualsDelete ==
    /\ \A j \in 1..Len(users), k \in 1..Len(tasks) :
            /\ canUpdateTask(j, tasks[k]) = canDeleteTask(j, tasks[k])
            /\ users[j].role \in {"admin", "manager"} => canUpdateTask(j, tasks[k])
    /\ \A j \in 1..Len(users), id \in TaskIds :
            LET t == createToken(users[j])
                del == TasksRemoveBody(t, id)
            IN  /\ \A p \in ReassignPayloads :
                    LET upd == TasksUpdateBody(t, id, p)
                    IN  /\ upd.resp.ok = del.resp.ok
                        /\ users[j].role \in {"admin", "manager"} =>
                                /\ upd.resp.ok
                                /\ Has(p, "assignedTo") =>
                                        upd.resp.result.assignedTo = p.assignedTo
                /\ users[j].role \in {"admin", "manager"} =>
                        (del.resp.ok /\ Resolves(id) # 0 /\ Len(del.tasks) < Len(tasks))

\* the admin's updateTask has succeeded and has stored the assignee that its
\* payload names
C18_Witness ==
    /\ last.op = "tasks.update"
    /\ last.by = createToken(users[1])
    /\ last.ok
    /\ last.result.createdBy = users[3].id
    /\ last.result.assignedTo = users[1].id
    /\ \E k \in 1..Len(tasks) : tasks[k] = last.result

(***************************************************************************)
(* C19: listUsers resolves for the token of every stored user, whatever    *)
(* the role, to one record per stored user, in order, each the stored      *)
(* record without its password; the record a createUser resolves to has no *)
(* password field either.                                                  *)
(***************************************************************************)
C19_UsersListedSanitized ==
    /\ \A k \in 1..Len(users) :
        LET out == UsersListBody(createToken(users[k]))
        IN  /\ out.resp.ok
            /\ out.users = users
            /\ Len(out.resp.result) = Len(users)
            /\ \A j \in 1..Len(users) :
                    /\ ~Has(out.resp.result[j], "password")
                    /\ \A f \in DOMAIN users[j] \ {"password"} :
                            out.resp.result[j][f] = users[j][f]
    /\ \A t \in Tokens, p \in CreateUserPayloads :
        LET out == UsersCreateBody(t, p)
        IN  out.resp.ok =>
                /\ ~Has(out.resp.result, "password")
                /\ out.resp.result.email = p.email

\* a member's listUsers has returned every user, one of them made by
\* createUser, none with a password
C19_Witness ==
    /\ last.op = "users.list"
    /\ last.by = createToken(users[3])
    /\ last.ok
    /\ Len(users) > 3
    /\ Len(last.result) = Len(users)
    /\ \A j \in 1..Len(last.result) : DOMAIN last.result[j] = {"id", "email", "role"}

(***************************************************************************)
(* C20: no two stored tasks share an id, and a deleteTask that succeeds    *)
(* removes exactly one task and leaves every other task as it was.         *)
(***************************************************************************)
C20_TaskIdsUnique ==
    /\ \A j, k \in 1..Len(tasks) : j # k => tasks[j].id # tasks[k].id
    /\ \A t \in Callers, id \in TaskIds :
        LET out == TasksRemoveBody(t, id)
        IN  out.resp.ok =>
                /\ Len(out.tasks) = Len(tasks) - 1
                /\ \A k \in 1..Len(tasks) :
                        tasks[k].id # id => Count(out.tasks, tasks[k]) = Count(tasks, tasks[k])

(***************************************************************************)
(* C21: for the token of every stored user, updateTask and deleteTask with *)
(* an id that matches no stored task throw "Not found" (not Forbidden) and *)
(* leave the tasks as they were; and an id for which a deleteTask has      *)
(* succeeded is such an id in every later state.                           *)
(***************************************************************************)
NotFound(out) == IsThrow(out.resp, "Not found", 0) /\ out.tasks = tasks

C21_UnknownIdNotFound ==
    \A j \in 1..Len(users), id \in gone \cup {"ghost"} :
        LET t == createToken(users[j])
        IN  /\ id \notin TaskIds
            /\ \A p \in DriveUpdateTask \cup {<<>>} : NotFound(TasksUpdateBody(t, id, p))
            /\ NotFound(TasksRemoveBody(t, id))

(***************************************************************************)
(* C22: every step keeps every stored user record as it is, at its place   *)
(* (id, email, role and password); the users change only by a createUser   *)
(* that succeeds, which adds one record at the end; a reload of the page    *)
(* adds none.                                                              *)
(***************************************************************************)
C22_UsersAppendOnly ==
    [][/\ Len(users') >= Len(users)
       /\ SubSeq(users', 1, Len(users)) = users
       /\ users' # users =>
            /\ last'.op = "users.create" /\ last'.ok
            /\ Len(users') = Len(users) + 1
       /\ last'.op = "seedIfEmpty" => users' = users]_vars

\* two users have been added to the seeded ones, which are as they were, and
\* the page has been loaded again
C22_Witness ==
    /\ Len(users) = 5
    /\ SubSeq(users, 1, 3) = SeedUsers
    /\ last.op = "seedIfEmpty"

(***************************************************************************)
(* C26: no updateTask changes the createdBy or the id of a task: a step    *)
(* that neither adds nor removes a task leaves both as they were.          *)
(***************************************************************************)
C26_OwnershipFixed ==
    [][Len(tasks') = Len(tasks) =>
            \A k \in 1..Len(tasks) :
                /\ tasks'[k].createdBy = tasks[k].createdBy
                /\ tasks'[k].id = tasks[k].id]_vars

(***************************************************************************)
(* C27: loading the page again on a store that was initialised and used    *)
(* adds no user and no task; after every task has been deleted the tasks   *)
(* are still none after the reload.                                        *)
(***************************************************************************)
C27_ReloadAddsNothing ==
    [][last'.op = "seedIfEmpty" => (users' = users /\ tasks' = tasks)]_vars

(***************************************************************************)
(* C23: calls wait in their delays together and settle in any order, and   *)
(* none of their writes is lost: a call that settles works on the store as *)
(* it is then (a createTask that succeeds adds its task to the tasks that  *)
(* are there, a createUser its user, an updateTask changes its task only,  *)
(* a call that fails changes nothing), so every record that was created is *)
(* in the store, and the store is that of the calls run one after another  *)
(* in the order in which they settled.                                     *)
(***************************************************************************)
C23_NoLostUpdate ==
    /\ [](/\ (Len(users) - 3) + (Len(tasks) - 2) = uidCount - 5
          /\ \A j, k \in 1..Len(tasks) : j # k => tasks[j].id # tasks[k].id)
    /\ [][Len(inflight') < Len(inflight) =>
            /\ (last'.ok /\ last'.op = "tasks.create") =>
                    (tasks' = Append(tasks, last'.result) /\ users' = users)
            /\ (last'.ok /\ last'.op = "users.create") =>
                    /\ Len(users') = Len(users) + 1
                    /\ SubSeq(users', 1, Len(users)) = users
                    /\ Without(users'[Len(users')], "password") = last'.result
                    /\ tasks' = tasks
            /\ (last'.ok /\ last'.op = "tasks.update") =>
                    /\ users' = users
                    /\ Len(tasks') = Len(tasks)
                    /\ \A k \in 1..Len(tasks) :
                            tasks'[k] = tasks[k] \/ tasks'[k] = last'.result
            /\ ~last'.ok => (users' = users /\ tasks' = tasks)]_vars

\* two createTask calls were waiting together when the store held two tasks;
\* both have settled and both tasks are in the store
C23_Witness ==
    /\ Len(tasks) = 4
    /\ tasks[3].id # tasks[4].id
    /\ tasks[3].title = "X" /\ tasks[4].title = "X"
    /\ inflight = <<>>
    /\ last.op = "tasks.create" /\ last.ok /\ last.result = tasks[4]

(***************************************************************************)
(* C24: a login by another user does not change what an earlier token      *)
(* resolves to: when a user holds the session and a later login succeeds,  *)
(* and nobody has logged out, me() still resolves to the user who held it. *)
(***************************************************************************)
C24_EarlierTokenKeepsOwner ==
    [][(session # <<>> /\ last'.op = "login" /\ last'.ok) =>
            /\ MeResult(session)' # <<>>
            /\ MeResult(session)'[1].user.id = session[1].userId]_vars

(***************************************************************************)
(* C25: after an admin's createUser(e, p) has succeeded, login(e, p)       *)
(* succeeds in every later state and resolves to the new user; with no     *)
(* password in the payload it is login(e, "password") that does.           *)
(* As stated (an empty password counts as a password given) this fails;    *)
(* it holds when an empty password is taken as no password.                *)
(***************************************************************************)
AdminTokens == {createToken(users[j]) : j \in {k \in 1..Len(users) : users[k].role = "admin"}}
\* the password the claim expects login to accept after createUser(payload)
GivenPassword(payload) ==
    IF Has(payload, "password") THEN payload.password ELSE "password"
GivenOrDefault(payload) ==
    IF Has(payload, "password") /\ payload.password # "" THEN payload.password ELSE "password"
\* login(email, password) on the store `out` finds the user createUser made
LogsInAsCreated(out, email, password) ==
    /\ FindUser(out.users, email, password) = Len(out.users)
    /\ out.users[Len(out.users)].id = out.resp.result.id

\* the statement as written
C25_CreatedUserLogsIn ==
    \A t \in AdminTokens, p \in CreateUserPayloads :
        LET out == UsersCreateBody(t, p)
        IN  out.resp.ok => LogsInAsCreated(out, p.email, GivenPassword(p))

\* amended: an empty password is an omitted one
C25_CreatedUserLogsInDefault ==
    /\ [](/\ \A t \in AdminTokens, p \in CreateUserPayloads :
                LET out == UsersCreateBody(t, p)
                IN  out.resp.ok =>
                        /\ LogsInAsCreated(out, p.email, GivenOrDefault(p))
                        /\ GivenPassword(p) = "" => FindUser(out.users, p.email, "") = 0
          /\ \A k \in 1..Len(users) :
                LET out == loginBody(users[k].email, users[k].password)
                IN  /\ out.resp.ok
                    /\ out.resp.result.user = users[k]
                    /\ getUserFromToken(out.resp.result.token) = k)
    /\ [][\A k \in 1..Len(users) : Len(users') >= k /\ users'[k] = users[k]]_vars

\* a user made without a password has logged in with "password", after
\* another user had logged in
C25_Witness ==
    /\ Len(users) >= 4
    /\ users[4].email = "new@demo.com" /\ users[4].password = "password"
    /\ last.op = "login" /\ last.ok
    /\ last.result.user = users[4]
    /\ session # <<>> /\ session[1].userId = users[4].id

(***************************************************************************)
(* C28: listTasks and listUsers are pure queries whose answers do not      *)
(* depend on who asks: they leave users, tasks and the session record as   *)
(* they are, and the same query on the same store gives every valid user,  *)
(* of any role, the same answer (the same error where list throws).        *)
(***************************************************************************)
\* the outcome of a call, without the token it was made with
Answer(out) == [ok |-> out.resp.ok, error |-> out.resp.error, result |-> out.resp.result]
Unwritten(out) ==
    /\ out.users = users
    /\ out.tasks = tasks
    /\ out.session = session
    /\ out.uidCount = uidCount

C28_QueriesPureAndBlind ==
    /\ [](\A j \in 1..Len(users) :
            LET t == createToken(users[j])
                t1 == createToken(users[1])
            IN  /\ Unwritten(UsersListBody(t))
                /\ UsersListBody(t).resp.ok
                /\ Answer(UsersListBody(t)) = Answer(UsersListBody(t1))
                /\ \A q \in DriveList :
                        /\ Unwritten(TasksListBody(t, q))
                        /\ Answer(TasksListBody(t, q)) = Answer(TasksListBody(t1, q)))
    /\ [][last'.op \in {"tasks.list", "users.list"} =>
                UNCHANGED <<users, tasks, session, uidCount>>]_vars

\* the member has listed seven tasks, the first page of five; it holds tasks
\* assigned to others, and it is the page the admin would get
C28_Witness ==
    /\ last.op = "tasks.list" /\ last.ok /\ last.by = createToken(users[3])
    /\ Len(tasks) = 7
    /\ Len(last.result.items) = 5
    /\ \E k \in 1..5 : last.result.items[k].assignedTo # users[3].id
    /\ last.result = TasksListBody(createToken(users[1]),
                                   [page |-> 1, pageSize |-> 5, status |-> "all",
                                    search |-> ""]).resp.result

(***************************************************************************)
(* C29: once the fetches of the page have settled, the page number shown   *)
(* lies in 1..max(1, ceil(taskTotal / pageSize)): Prev and Next do not     *)
(* leave the range, a change of status, page size or search sets page 1,   *)
(* and a deletion that leaves fewer pages does not leave the page past the *)
(* last one.                                                               *)
(***************************************************************************)
Settled == \A k \in 1..Len(inflight) : inflight[k].op # "tasks.list"
Max(a, b) == IF a >= b THEN a ELSE b
C29_PageInRange ==
    (LoggedIn /\ Settled /\ ~client.loading) =>
        client.page \in 1..Max(1, Ceil(client.taskTotal, client.pageSize))

(***************************************************************************)
(* C30: after doLogout has completed the task list and the user list the   *)
(* page holds stay empty until the next login succeeds, whatever fetches   *)
(* were in flight when logout was asked for.                               *)
(***************************************************************************)
C30_CachesEmptyAfterLogout ==
    ~LoggedIn => (client.tasks = <<>> /\ client.users = <<>>)

====
